---- MODULE Spec2Model ----
(***************************************************************************)
(* Model of the Json<i32> serializer of src/src/lib.rs (the same code is   *)
(* repeated in src/src/main.rs).  A text is a sequence of one-character    *)
(* strings; the mapping `data` is a function from key texts to integers.   *)
(***************************************************************************)
EXTENDS Integers, Sequences, FiniteSets, TLC

\* ------------------------------------------------------------------ bounds
\* Largest number of entries of a generated object text.
MaxEntries == 2
\* Largest indent passed to encode.
MaxIndent == 2

\* ------------------------------------------------------- program constants
\* i32::MAX and i32::MIN: i32::from_str rejects what does not fit 32 bits.
I32Max == 2147483647
I32Min == -I32Max - 1

\* -------------------------------------------------------------- characters
LBrace == "{"
RBrace == "}"
Comma == ","
Colon == ":"
Quote == "\""
Newline == "\n"
Space == " "
\* char::is_whitespace, restricted to the characters the inputs use.
WhiteSpace == {" ", "\n", "\t", "\r"}
Digits == <<"0", "1", "2", "3", "4", "5", "6", "7", "8", "9">>

\* ---------------------------------------------------- std string operations
\* str::starts_with / str::ends_with for a one-character pattern.
StartsWith(s, c) == Len(s) > 0 /\ s[1] = c
EndsWith(s, c) == Len(s) > 0 /\ s[Len(s)] = c

\* str::replace(c, ""): every occurrence of c removed.
Remove(s, c) == SelectSeq(s, LAMBDA ch : ch # c)

\* str::split(c): the segments between occurrences of c; a text without c
\* (the empty text included) is one segment, and a text ending in c has an
\* empty last segment.
RECURSIVE SplitKeepLast(_, _)
SplitKeepLast(s, c) ==
    IF \A i \in 1..Len(s) : s[i] # c
    THEN <<s>>
    ELSE LET i == CHOOSE j \in 1..Len(s) :
                      s[j] = c /\ \A k \in 1..(j - 1) : s[k] # c
         IN <<SubSeq(s, 1, i - 1)>> \o SplitKeepLast(SubSeq(s, i + 1, Len(s)), c)

\* A split that drops a trailing empty segment (as Java's String.split does).
SplitDropLast(s, c) ==
    LET segs == SplitKeepLast(s, c)
    IN IF Len(segs) > 1 /\ segs[Len(segs)] = <<>>
       THEN SubSeq(segs, 1, Len(segs) - 1)
       ELSE segs

Split(s, c) == SplitKeepLast(s, c)

\* str::trim: leading and trailing whitespace removed.
RECURSIVE Trim(_)
Trim(s) ==
    IF Len(s) = 0 THEN s
    ELSE IF s[1] \in WhiteSpace THEN Trim(Tail(s))
    ELSE IF s[Len(s)] \in WhiteSpace THEN Trim(SubSeq(s, 1, Len(s) - 1))
    ELSE s

\* " ".repeat(n)
RECURSIVE Repeat(_, _)
Repeat(c, n) == IF n = 0 THEN <<>> ELSE <<c>> \o Repeat(c, n - 1)

\* ------------------------------------------------------ i32 <-> text
DigitVal(c) == CHOOSE d \in 0..9 : Digits[d + 1] = c
IsDigit(c) == \E d \in 0..9 : Digits[d + 1] = c

RECURSIVE NatText(_)
NatText(n) ==
    IF n < 10 THEN <<Digits[n + 1]>>
    ELSE NatText(n \div 10) \o <<Digits[(n % 10) + 1]>>

\* <i32 as Display>::fmt
Display(n) == IF n < 0 THEN <<"-">> \o NatText(-n) ELSE NatText(n)

RECURSIVE NatVal(_)
NatVal(s) ==
    IF Len(s) = 0 THEN 0
    ELSE 10 * NatVal(SubSeq(s, 1, Len(s) - 1)) + DigitVal(s[Len(s)])

\* <i32 as FromStr>::from_str: an optional sign, then one or more digits,
\* and a value that fits 32 bits; anything else is Err.
ParseI32(s) ==
    LET signed == Len(s) > 0 /\ s[1] \in {"+", "-"}
        body == IF signed THEN Tail(s) ELSE s
        mag == NatVal(body)
        val == IF signed /\ s[1] = "-" THEN -mag ELSE mag
    IN IF Len(body) = 0 \/ \E i \in 1..Len(body) : ~IsDigit(body[i])
       THEN [ok |-> FALSE, val |-> 0]
       ELSE IF val > I32Max \/ val < I32Min
       THEN [ok |-> FALSE, val |-> 0]
       ELSE [ok |-> TRUE, val |-> val]

\* ------------------------------------------------------------ the mapping
\* Json::new: an empty HashMap.
new == [k \in {} |-> 0]

\* An insert that keeps the value already stored (entry().or_insert).
InsertKeepFirst(m, k, v) ==
    [x \in DOMAIN m \cup {k} |-> IF x \in DOMAIN m THEN m[x] ELSE v]

\* HashMap::insert: the key is added, or its value replaced.
Insert(m, k, v) == [x \in DOMAIN m \cup {k} |-> IF x = k THEN v ELSE m[x]]

\* ----------------------------------------------------------------- encode
\* One entry line of encode: indent, quoted key, ':', indent, value, ",\n".
EntryLine(m, key, indent) ==
    Repeat(Space, indent) \o <<Quote>> \o key \o <<Quote, Colon>>
        \o Repeat(Space, indent) \o Display(m[key]) \o <<Comma, Newline>>

RECURSIVE EntryLines(_, _, _)
EntryLines(m, order, indent) ==
    IF order = <<>> THEN <<>>
    ELSE EntryLine(m, Head(order), indent) \o EntryLines(m, Tail(order), indent)

\* Json::encode, for the order in which HashMap::keys yields the keys.
encode(m, order, indent) ==
    <<LBrace, Newline>> \o EntryLines(m, order, indent) \o <<RBrace>>

\* The orders HashMap::keys can yield: the order is unspecified and depends
\* on the map's randomly seeded hasher, so it is any ordering of the keys.
KeyOrders(m) ==
    LET n == Cardinality(DOMAIN m)
    IN {o \in [1..n -> DOMAIN m] : \A i, j \in 1..n : i # j => o[i] # o[j]}

\* ----------------------------------------------------------------- decode
\* The brace check: decode exits only when the text neither starts with '{'
\* nor ends with '}'.
BraceGuardRejects(text) == ~StartsWith(text, LBrace) /\ ~EndsWith(text, RBrace)

\* contents.replace("{", "").replace("}", "").replace("\n", "")
parsed_contents(text) == Remove(Remove(Remove(text, LBrace), RBrace), Newline)

\* parsed_contents.split(",")
LinesOf(text) == Split(parsed_contents(text), Comma)

\* line.trim().split(":")
Parts(line) == Split(Trim(line), Colon)

\* line.get(0).unwrap().replace("\"", "")
KeyOf(line) == Remove(Parts(line)[1], Quote)

\* line.get(1) is Some
HasValue(line) == Len(Parts(line)) >= 2

\* line.get(1).expect(..).trim().replace("\"", "")
ValueOf(line) == Remove(Trim(Parts(line)[2]), Quote)

\* ------------------------------------------------------- the source files
\* The texts a source file may hold: flat objects of up to MaxEntries entries
\* over two keys and two values, written compactly, or with one kind of
\* whitespace in one kind of gap between tokens, or with one defect; and the
\* empty file.
Keys == {<<"a">>, <<"b">>}
Values == {-1, 12}
Entries == [key : Keys, val : Values]
EntryLists == UNION {[1..n -> Entries] : n \in 0..MaxEntries}

WsGaps == {"lead", "beforeKey", "afterKey", "afterColon", "afterValue", "trail"}
WsChars == {" ", "\n"}
Defects == {"trailingComma", "noOpen", "noClose", "noBraces", "noValue",
            "badValue", "trailingContent"}
Compact == [gap |-> "none", ws |-> " ", defect |-> "none"]
WsShapes == [gap : WsGaps, ws : WsChars, defect : {"none"}]
DefectShapes == [gap : {"none"}, ws : {" "}, defect : Defects]
Shapes == {Compact} \cup WsShapes \cup DefectShapes

\* The text of one entry; the last entry of a text carries the value defects.
EntryText(e, sh, last) ==
    LET gap(g) == IF sh.gap = g THEN <<sh.ws>> ELSE <<>>
        key == gap("beforeKey") \o <<Quote>> \o e.key \o <<Quote>> \o gap("afterKey")
    IN IF last /\ sh.defect = "noValue" THEN key
       ELSE IF last /\ sh.defect = "badValue" THEN key \o <<Colon, "x">>
       ELSE key \o <<Colon>> \o gap("afterColon") \o Display(e.val)
                \o gap("afterValue")

RECURSIVE Body(_, _)
Body(es, sh) ==
    IF es = <<>> THEN <<>>
    ELSE IF Len(es) = 1 THEN EntryText(es[1], sh, TRUE)
    ELSE EntryText(es[1], sh, FALSE) \o <<Comma>> \o Body(Tail(es), sh)

\* The object text of the entries es written in shape sh.
Render(es, sh) ==
    (IF sh.gap = "lead" THEN <<sh.ws>> ELSE <<>>)
    \o (IF sh.defect \in {"noOpen", "noBraces"} THEN <<>> ELSE <<LBrace>>)
    \o Body(es, sh)
    \o (IF sh.defect = "trailingComma" THEN <<Comma>> ELSE <<>>)
    \o (IF sh.defect \in {"noClose", "noBraces"} THEN <<>> ELSE <<RBrace>>)
    \o (IF sh.defect = "trailingContent" THEN <<"x">> ELSE <<>>)
    \o (IF sh.gap = "trail" THEN <<sh.ws>> ELSE <<>>)

Documents == [entries : EntryLists, shape : Shapes]

\* The mapping an entry list spells: each key with the value of its last entry.
LastWins(es) ==
    [k \in {es[i].key : i \in 1..Len(es)} |->
        es[CHOOSE i \in 1..Len(es) :
               es[i].key = k /\ \A j \in (i + 1)..Len(es) : es[j].key # k].val]

\* Files in the format encode writes (as sample.json of the crate's test).
EncodedTexts ==
    UNION {{encode(LastWins(es), order, indent) :
               order \in KeyOrders(LastWins(es)), indent \in 0..MaxIndent} :
           es \in EntryLists}

SourceTexts ==
    {Render(d.entries, d.shape) : d \in Documents} \cup EncodedTexts \cup {<<>>}
\* The well-formed texts without whitespace.
CompactTexts == {Render(es, Compact) : es \in EntryLists}

\* ------------------------------------------------------------------ state
VARIABLES
    data,       \* Json::data, the mapping of the Json in use
    pc,         \* "idle", "loop" (inside decode's for loop), "exit" (process
                \* ::exit(1)), "panic_expect" (the expect on a missing value),
                \* "panic_parse" (the panic on a value that does not parse)
    contents,   \* decode's contents: the text of the call in progress
    lines,      \* the entries of decode's lines iterator not yet visited
    pre,        \* data as it was when the decode call in progress began
    encoded     \* the text encode returned last, with the mapping and the
                \* indent it was made from (text <<>>: none is held)

vars == <<data, pc, contents, lines, pre, encoded>>

NoOutput == [map |-> new, indent |-> 0, text |-> <<>>]
Aborts == {"exit", "panic_expect", "panic_parse"}

Init ==
    /\ data = new
    /\ pc = "idle"
    /\ contents = <<>>
    /\ lines = <<>>
    /\ pre = new
    /\ encoded = NoOutput

\* let mut json_data = Json::new(): the caller goes on with a fresh Json.
New ==
    /\ pc = "idle"
    /\ data' = new
    /\ UNCHANGED <<pc, contents, lines, pre, encoded>>

\* encode(indent): the keys are visited in the order HashMap::keys yields.
Encode ==
    /\ pc = "idle"
    /\ \E indent \in 0..MaxIndent, order \in KeyOrders(data) :
           encoded' = [map |-> data, indent |-> indent,
                       text |-> encode(data, order, indent)]
    /\ UNCHANGED <<data, pc, contents, lines, pre>>

\* decode up to the for loop: read the text, check the braces, strip and split.
DecodeBegin(text) ==
    /\ pc = "idle"
    /\ contents' = text
    /\ pre' = data
    /\ IF BraceGuardRejects(text)
       THEN pc' = "exit" /\ lines' = <<>>
       ELSE pc' = "loop" /\ lines' = LinesOf(text)
    /\ UNCHANGED data

\* decode called on a source file.
DecodeFile ==
    /\ \E text \in SourceTexts : DecodeBegin(text)
    /\ encoded' = NoOutput

\* decode called on a well-formed source file without whitespace.
DecodeCompact ==
    /\ \E text \in CompactTexts : DecodeBegin(text)
    /\ encoded' = NoOutput

\* decode called on a file that holds the text encode returned last.
DecodeEncoded ==
    /\ encoded # NoOutput
    /\ DecodeBegin(encoded.text)
    /\ UNCHANGED encoded

\* One iteration of decode's for loop: the next line is taken, then its
\* value is missing (expect panics), or does not parse (panic), or the entry
\* is inserted.
DecodeLine ==
    /\ pc = "loop"
    /\ lines # <<>>
    /\ lines' = Tail(lines)
    /\ LET line == Head(lines)
       IN IF ~HasValue(line)
          THEN pc' = "panic_expect" /\ UNCHANGED data
          ELSE LET value == ParseI32(ValueOf(line))
               IN IF ~value.ok
                  THEN pc' = "panic_parse" /\ UNCHANGED data
                  ELSE /\ data' = Insert(data, KeyOf(line), value.val)
                       /\ UNCHANGED pc
    /\ UNCHANGED <<contents, pre, encoded>>

\* The loop is over: decode returns to its caller.
Returning == pc = "loop" /\ lines = <<>>

DecodeReturn ==
    /\ Returning
    /\ pc' = "idle"
    /\ contents' = <<>>
    /\ pre' = new
    /\ UNCHANGED <<data, lines, encoded>>

\* A caller that decodes source files of every shape.
Next ==
    \/ New
    \/ DecodeFile
    \/ DecodeLine
    \/ DecodeReturn

Spec == Init /\ [][Next]_vars

\* A caller that decodes well-formed compact files, encodes, and decodes the
\* text encode returned.
NextRoundTrip ==
    \/ New
    \/ Encode
    \/ DecodeCompact
    \/ DecodeEncoded
    \/ DecodeLine
    \/ DecodeReturn

SpecRoundTrip == Init /\ [][NextRoundTrip]_vars

\* ------------------------------------------------- definitions of the claims
\* m1 overridden by m2: the right-biased union.
Override(m1, m2) ==
    [k \in DOMAIN m1 \cup DOMAIN m2 |-> IF k \in DOMAIN m2 THEN m2[k] ELSE m1[k]]

\* Every line of the text has a value that parses: a fresh Json decodes it.
Decodable(text) ==
    /\ ~BraceGuardRejects(text)
    /\ \A i \in 1..Len(LinesOf(text)) :
           /\ HasValue(LinesOf(text)[i])
           /\ ParseI32(ValueOf(LinesOf(text)[i])).ok

\* The mapping a fresh Json holds after decoding a decodable text.
RECURSIVE MappingOfLines(_)
MappingOfLines(ls) ==
    IF ls = <<>> THEN new
    ELSE LET line == ls[Len(ls)]
         IN Override(MappingOfLines(SubSeq(ls, 1, Len(ls) - 1)),
                     [k \in {KeyOf(line)} |-> ParseI32(ValueOf(line)).val])

MappingOf(text) == MappingOfLines(LinesOf(text))

\* A call of decode is in progress or has just aborted; contents is its text.
InDecode == pc # "idle"
\* The call in progress was made on a fresh Json.
OnFresh == InDecode /\ pre = new

WellFormedShapes == {Compact} \cup WsShapes
WellFormedTexts == {Render(es, sh) : es \in EntryLists, sh \in WellFormedShapes}

HasDuplicate(es) == \E i, j \in 1..Len(es) : i # j /\ es[i].key = es[j].key

\* The text is an object whose last character before the closing brace,
\* whitespace apart, is a comma.
HasTrailingComma(text) ==
    LET t == Trim(text)
    IN /\ StartsWith(t, LBrace)
       /\ EndsWith(t, RBrace)
       /\ EndsWith(Trim(SubSeq(t, 1, Len(t) - 1)), Comma)

\* The text decode is working on is the text encode returned last.
DecodingEncoded == InDecode /\ encoded # NoOutput /\ contents = encoded.text

\* C1 (as claimed): the text T that encode(2) returned decodes on a fresh Json
\* without panic or exit, and encode(2) on the result returns exactly T.
C1_TextRoundTrip ==
    (DecodingEncoded /\ pre = new /\ encoded.indent = 2) =>
        /\ pc \notin Aborts
        /\ Returning =>
               \A order \in KeyOrders(data) : encode(data, order, 2) = contents

\* C2 (as claimed): decoding the text encode(V, indent) returned on a fresh
\* Json yields a mapping equal to V, for every indent.
C2_ValueRoundTrip ==
    (DecodingEncoded /\ pre = new) =>
        /\ pc \notin Aborts
        /\ Returning => data = encoded.map

\* C3 (as claimed): decode of a text that is not a well-formed object never
\* panics and never exits the process.
C3_MalformedNeverAborts ==
    (InDecode /\ contents \notin WellFormedTexts) => pc \notin Aborts

\* C4 (as claimed): when a well-formed object text repeats a key, decode on a
\* fresh Json succeeds and maps every key to the value of its last entry.
C4_LastWriteWins ==
    OnFresh =>
        \A es \in EntryLists, sh \in WellFormedShapes :
            (HasDuplicate(es) /\ contents = Render(es, sh)) =>
                /\ pc \notin Aborts
                /\ Returning => data = LastWins(es)

\* C5 (as claimed): decoding "{}" on a fresh Json succeeds and yields the
\* empty mapping.
C5_EmptyObject ==
    (OnFresh /\ contents = <<LBrace, RBrace>>) =>
        /\ pc \notin Aborts
        /\ Returning => data = new

C7_EncodeDeterministic ==
    encoded # NoOutput =>
        \A order \in KeyOrders(encoded.map) :
            encode(encoded.map, order, encoded.indent) = encoded.text

\* C8 (as claimed): a text that differs from a decodable compact object text
\* only in whitespace between tokens decodes to the same mapping.
C8_WhitespaceIgnored ==
    OnFresh =>
        \A es \in EntryLists, sh \in WsShapes :
            (Decodable(Render(es, Compact)) /\ contents = Render(es, sh)) =>
                /\ pc \notin Aborts
                /\ Returning => data = MappingOf(Render(es, Compact))

\* C9 (as claimed): a text that lacks the opening or the closing brace is
\* rejected with exit before any entry is inserted.
C9_BraceGuard ==
    (InDecode /\ (~StartsWith(contents, LBrace) \/ ~EndsWith(contents, RBrace))) =>
        /\ pc = "exit"
        /\ data = pre

\* C10: decode never removes a key, and when it returns the mapping is the
\* mapping it started from overridden by the mapping of the decoded text.
C10_DecodeAccumulates ==
    /\ pc = "loop" => DOMAIN pre \subseteq DOMAIN data
    /\ Returning => data = Override(pre, MappingOf(contents))

\* C10 witness: decode of a well-formed text returns on a Json that held a
\* key the text lacks and a key the text gives another value.
C10_Witness ==
    /\ Returning
    /\ contents \in WellFormedTexts
    /\ \E k \in DOMAIN pre : k \notin DOMAIN MappingOf(contents)
    /\ \E k \in DOMAIN pre \cap DOMAIN MappingOf(contents) :
           pre[k] # MappingOf(contents)[k]

====
